---- MODULE Spec2Model ----
(***************************************************************************)
(* Model of the GraphQL API of nodejs-graphql-api: the request context     *)
(* builder (src/index.ts), the resolvers (src/graphql/resolvers.ts) and    *)
(* the three relations with their constraints (src/utils/database.ts).     *)
(*                                                                         *)
(* A request is handled by one client slot.  Every `await pool.query` of   *)
(* a resolver is one atomic step of the store; the code before it (and,    *)
(* for the last statement, after it) belongs to the same step.  Requests   *)
(* of different clients interleave between those steps.                    *)
(*                                                                         *)
(* An optional value (undefined in the source) is a sequence of length 0   *)
(* or 1.                                                                   *)
(***************************************************************************)
EXTENDS Integers, Sequences, FiniteSets, TLC

\* ---------------------------------------------------------------- bounds
MaxUserId == 2
MaxPostId == 1
MaxCommentId == 1
MaxTime == 1

\* ---------------------------------------------------------------- inputs
\* two request slots: at most two requests are in flight at a time
Clients == {1, 2}
Usernames == {"alice", "bob"}
Emails == {"alice@x.com", "bob@x.com"}
Passwords == {"pw123456"}
WrongPasswords == {"hunter22"}
Titles == {"T"}
Contents == {"C"}
NewTitles == {"X"}
NewContents == {"D"}
CommentTexts == {"hi"}
Salts == {"salt"}

None == <<>>
Some(x) == <<x>>
Optional(S) == {None} \cup {Some(x) : x \in S}

\* the fields a patch of updatePost can set
PatchFields == {"title", "content", "published"}

\* An optional argument is either left out (None) or given a value.
\* every input a single client can send
AllInputs ==
    [guesses |-> Passwords \cup WrongPasswords, published |-> Optional(BOOLEAN),
     titles |-> Optional(NewTitles), contents |-> Optional(NewContents),
     flags |-> Optional(BOOLEAN), anyHeader |-> TRUE]

\* the inputs of the requests that race: no credential to a public operation,
\* a valid one to a protected operation, and patches that collide on
\* published or touch disjoint fields
RaceInputs ==
    [guesses |-> Passwords, published |-> {None},
     titles |-> Optional(NewTitles), contents |-> {None},
     flags |-> Optional(BOOLEAN), anyHeader |-> FALSE]

IdleReq == [pc |-> "idle", op |-> "", args |-> <<>>, header |-> <<>>, ctx |-> <<>>, result |-> <<>>]

\* The relations keep the columns a mutation reads or writes: the created_at
\* and updated_at defaults of users and comments are written once by the
\* column default and never read or written by a resolver.
VARIABLES users, posts, comments, userSeq, postSeq, commentSeq, now, req

\* boot is the position of startServer; gone holds the user rows removed from
\* the store behind the server's back; overlapped[c] records, for a pending
\* updatePost of c, the last UPDATE another request ran on the same post
\* since c's ownership check
VARIABLES boot, gone, overlapped

vars == <<users, posts, comments, userSeq, postSeq, commentSeq, now, req, boot, gone, overlapped>>
db == <<users, posts, comments>>

\* -------- utils/auth: the credential hasher and the token service (spec 4.1, 4.2)
TokenTTL == 1
Secret == "JWT_SECRET"

hashPassword(password, salt) == [alg |-> "bcrypt", salt |-> salt, digest |-> <<salt, password>>]

comparePassword(password, hash) == hash = hashPassword(password, hash.salt)

generateToken(claims, t) == [claims |-> claims, exp |-> t + TokenTTL, sig |-> Secret]

\* the claims of a token whose signature and expiry verify; None when it throws
verifyToken(token, t) ==
    IF token.sig = Secret /\ t < token.exp THEN Some(token.claims) ELSE None

\* ------------------------------------------------ request context builder
\* req.headers.authorization?.replace('Bearer ', ''): the credential that is
\* left of the header, None for an absent header or an empty credential
bearerToken(header) == IF header = None THEN None ELSE header[1].cred

\* the credential decoded without its signature and expiry being verified
contextUnverified(header, t) ==
    LET token == bearerToken(header) IN
    IF token # None THEN [user |-> Some(token[1].claims)] ELSE [user |-> None]

context(header, t) ==
    LET token == bearerToken(header) IN
    IF token # None
    THEN LET user == verifyToken(token[1], t) IN
         IF user # None THEN [user |-> user] ELSE [user |-> None]
    ELSE [user |-> None]

\* ------------------------------------------------------- store statements
\* the existence check on the email alone
existingUserEmailOnly(email, username) == {u \in users : u.email = email}

\* SELECT id FROM users WHERE email = $1 OR username = $2
existingUser(email, username) == {u \in users : u.email = email \/ u.username = username}

\* the lookup without its WHERE clause
usersByEmailAny(email) == users

\* SELECT * FROM users WHERE email = $1
usersByEmail(email) == {u \in users : u.email = email}

\* SELECT id, username, email, created_at FROM users WHERE id = $1
userById(id) == {u \in users : u.id = id}

\* SELECT author_id FROM posts WHERE id = $1 / SELECT id FROM posts WHERE id = $1
postCheck(id) == {p \in posts : p.id = id}

\* SELECT author_id FROM comments WHERE id = $1
commentCheck(id) == {k \in comments : k.id = id}

\* SELECT * FROM comments WHERE post_id = $1
commentsOfPost(postId) == {k \in comments : k.post_id = postId}

\* the users table without its UNIQUE constraints
usersUniqueOff(row) == TRUE

\* username VARCHAR(255) UNIQUE, email VARCHAR(255) UNIQUE
usersUnique(row) == \A u \in users : u.username # row.username /\ u.email # row.email

\* author_id INTEGER NOT NULL REFERENCES users(id)
userExists(id) == \E u \in users : u.id = id

\* comments.post_id without its foreign key
postExistsUnchecked(id) == TRUE

\* post_id INTEGER NOT NULL REFERENCES posts(id)
postExists(id) == \E p \in posts : p.id = id

\* !context.user
unauthenticated(ctx) == ctx.user = None

\* the ownership comparison left out
notPostOwnerSkipped(rows, ctx) == FALSE

\* postCheck.rows[0].author_id !== context.user.userId
notPostOwner(rows, ctx) == \E p \in rows : p.author_id # ctx.user[1].userId

\* the comparison made against the owner of the parent post
notCommentOwnerByPost(rows, ctx) ==
    \E k \in rows : \A p \in postCheck(k.post_id) : p.author_id # ctx.user[1].userId

\* commentCheck.rows[0].author_id !== context.user.userId
notCommentOwner(rows, ctx) == \E k \in rows : k.author_id # ctx.user[1].userId

\* the SET list built on the truthiness of an argument: published = false
\* is treated as left out
applyUpdatesTruthy(p, args, t) ==
    [p EXCEPT !.title = IF args.title # None THEN args.title[1] ELSE @,
              !.content = IF args.content # None THEN args.content[1] ELSE @,
              !.published = IF args.published # None /\ args.published[1] THEN TRUE ELSE @,
              !.updated_at = t]

\* a fixed SET list: a field the patch leaves out is written as empty
applyUpdatesAllFields(p, args, t) ==
    [p EXCEPT !.title = IF args.title # None THEN args.title[1] ELSE "",
              !.content = IF args.content # None THEN args.content[1] ELSE "",
              !.published = IF args.published # None THEN args.published[1] ELSE FALSE,
              !.updated_at = t]

\* the SET list of updatePost applied to one row
applyUpdates(p, args, t) ==
    [p EXCEPT !.title = IF args.title # None THEN args.title[1] ELSE @,
              !.content = IF args.content # None THEN args.content[1] ELSE @,
              !.published = IF args.published # None THEN args.published[1] ELSE @,
              !.updated_at = t]

\* the UPDATE with the SET list built on truthiness
postsAfterUpdateTruthy(args, t) ==
    {IF p.id = args.id THEN applyUpdatesTruthy(p, args, t) ELSE p : p \in posts}

\* UPDATE posts SET ... WHERE id = $n
postsAfterUpdate(args, t) ==
    {IF p.id = args.id THEN applyUpdates(p, args, t) ELSE p : p \in posts}

\* DELETE FROM posts WHERE id = $1, with comments.post_id ON DELETE CASCADE
postsAfterDelete(id) == {p \in posts : p.id # id}
commentsAfterPostDelete(id) == {k \in comments : k.post_id # id}

\* DELETE FROM comments WHERE id = $1
commentsAfterDelete(id) == {k \in comments : k.id # id}

\* ------------------------------------------------------------- responses
Ok(v) == [err |-> "", val |-> Some(v)]
Undefined == [err |-> "", val |-> None]
Error(msg) == [err |-> msg, val |-> None]

NotAuthenticated == "Not authenticated"
PostNotFound == "Post not found"
CommentNotFound == "Comment not found"
UserExists == "User with this email or username already exists"
NoSuchEmail == "Invalid credentials"
WrongPasswordDistinct == "Invalid password"
WrongPassword == "Invalid credentials"
NotAuthorizedUpdate == "Not authorized to update this post"
NotAuthorizedDeletePost == "Not authorized to delete this post"
NotAuthorizedDeleteComment == "Not authorized to delete this comment"
UserNotFound == "User not found"
UniqueViolation == "duplicate key value violates unique constraint"
ForeignKeyViolation == "violates foreign key constraint"

publicUser(u) == [id |-> u.id, username |-> u.username, email |-> u.email]
claimsOf(u) == [userId |-> u.id, username |-> u.username, email |-> u.email]

\* ------------------------------------------------------------ startServer
\* the statements initializeDatabase runs on its client, in order
Statements == <<"BEGIN", "users", "posts", "comments", "COMMIT">>
Tables == {"users", "posts", "comments"}

\* the process before startServer runs: nothing tested, no client checked out
\* of the pool, no transaction, no table created by this process
Booting ==
    [pc |-> "testConnection", tested |-> FALSE, client |-> FALSE, tx |-> "none",
     tables |-> {}, rollback |-> "none", failed |-> None, exitCode |-> None]

Listening == boot.pc = "listening"
Exited == boot.pc = "exited"

\* process.exit(1)
exit(b, stage) == [b EXCEPT !.pc = "exited", !.failed = Some(stage), !.exitCode = Some(1)]

\* a failed connection test that is logged and not acted upon
testConnectionSwallows ==
    /\ boot.pc = "testConnection"
    /\ \E ok \in BOOLEAN :
           boot' = [boot EXCEPT !.pc = "initializeDatabase", !.tested = ok]
    /\ UNCHANGED <<users, posts, comments, userSeq, postSeq, commentSeq, now, req, gone, overlapped>>

\* await pool.connect(); client.release(), or process.exit(1) in the catch
testConnection ==
    /\ boot.pc = "testConnection"
    /\ \E ok \in BOOLEAN :
           boot' = IF ok
                   THEN [boot EXCEPT !.pc = "initializeDatabase", !.tested = TRUE]
                   ELSE exit(boot, "testConnection")
    /\ UNCHANGED <<users, posts, comments, userSeq, postSeq, commentSeq, now, req, gone, overlapped>>

\* const client = await pool.connect(), outside the try: a failure rejects
\* startServer, whose catch exits
initializeDatabaseConnect ==
    /\ boot.pc = "initializeDatabase"
    /\ \E ok \in BOOLEAN :
           boot' = IF ok
                   THEN [boot EXCEPT !.pc = Statements[1], !.client = TRUE]
                   ELSE exit(boot, "connect")
    /\ UNCHANGED <<users, posts, comments, userSeq, postSeq, commentSeq, now, req, gone, overlapped>>

\* the effect of the i-th statement on the transaction and its tables
afterStatement(b, i) ==
    IF Statements[i] = "BEGIN" THEN [b EXCEPT !.tx = "open"]
    ELSE IF Statements[i] = "COMMIT" THEN [b EXCEPT !.tx = "committed"]
    ELSE [b EXCEPT !.tables = @ \cup {Statements[i]}]

\* await client.query(...) inside the try: the next statement, the finally
\* and the rest of startServer after COMMIT, or the catch
initializeDatabaseQuery ==
    /\ \E i \in DOMAIN Statements :
        /\ boot.pc = Statements[i]
        /\ \E ok \in BOOLEAN :
            boot' = IF ~ok
                    THEN [boot EXCEPT !.pc = "ROLLBACK", !.failed = Some(Statements[i])]
                    ELSE IF i < Len(Statements)
                    THEN [afterStatement(boot, i) EXCEPT !.pc = Statements[i + 1]]
                    ELSE [afterStatement(boot, i) EXCEPT !.pc = "server.start", !.client = FALSE]
    /\ UNCHANGED <<users, posts, comments, userSeq, postSeq, commentSeq, now, req, gone, overlapped>>

\* catch: await client.query('ROLLBACK'); throw error; finally: release. The
\* rejection reaches the catch of startServer, which exits
initializeDatabaseRollback ==
    /\ boot.pc = "ROLLBACK"
    /\ \E ok \in BOOLEAN :
           boot' = [exit(boot, boot.failed[1]) EXCEPT
                       !.rollback = IF ok THEN "done" ELSE "failed",
                       !.tx = IF ok /\ @ = "open" THEN "rolledback" ELSE @,
                       !.tables = IF ok THEN {} ELSE @,
                       !.client = FALSE]
    /\ UNCHANGED <<users, posts, comments, userSeq, postSeq, commentSeq, now, req, gone, overlapped>>

\* await server.start(); app.use(...); app.listen(PORT)
serverStart ==
    /\ boot.pc = "server.start"
    /\ \E ok \in BOOLEAN :
           boot' = IF ok THEN [boot EXCEPT !.pc = "listening"] ELSE exit(boot, "server.start")
    /\ UNCHANGED <<users, posts, comments, userSeq, postSeq, commentSeq, now, req, gone, overlapped>>

startServer ==
    \/ testConnection
    \/ initializeDatabaseConnect
    \/ initializeDatabaseQuery
    \/ initializeDatabaseRollback
    \/ serverStart

\* ------------------------------------------------------------- requests
\* the tokens login has issued, or would issue on request, for the stored
\* users, and those it issued for a user whose row has been removed since
Issued == {generateToken(claimsOf(u), t) : u \in users \cup gone, t \in 0..now}

\* a forged credential: the claims of another identity under a foreign signature
tampered(token) ==
    [token EXCEPT !.claims.userId = IF @ = 1 THEN 2 ELSE 1, !.sig = "forged"]

\* the Authorization headers a client can send
Headers(U, public) ==
    IF U.anyHeader
    THEN {None, Some([scheme |-> "Bearer ", cred |-> None])}
         \cup {Some([scheme |-> "Bearer ", cred |-> Some(k)]) : k \in Issued}
         \cup {Some([scheme |-> "", cred |-> Some(k)]) : k \in Issued}
         \cup {Some([scheme |-> "Bearer ", cred |-> Some(tampered(k))]) : k \in Issued}
    ELSE IF public THEN {None}
    ELSE {Some([scheme |-> "Bearer ", cred |-> Some(k)]) : k \in {i \in Issued : now < i.exp}}

\* a response is delivered before the store runs the next statement
Delivered == \A c \in Clients : req[c].pc # "done"

\* a request is taken once the server listens, by the lowest free slot
Idle(c) ==
    /\ Listening
    /\ Delivered
    /\ req[c].pc = "idle"
    /\ \A d \in Clients : d < c => req[d].pc # "idle"

At(c, pc) == Delivered /\ req[c].pc = pc

Call(c, op, args, header, pc) ==
    req' = [req EXCEPT ![c] = [pc |-> pc, op |-> op, args |-> args, header |-> header,
                               ctx |-> context(header, now), result |-> None]]

Return(c, op, args, header, result) ==
    req' = [req EXCEPT ![c] = [pc |-> "done", op |-> op, args |-> args, header |-> header,
                               ctx |-> context(header, now), result |-> Some(result)]]

Finish(c, result) ==
    req' = [req EXCEPT ![c].pc = "done", ![c].result = Some(result)]

Pending(pc) == Cardinality({c \in Clients : req[c].pc = pc})

Init ==
    /\ users = {}
    /\ posts = {}
    /\ comments = {}
    /\ userSeq = 0
    /\ postSeq = 0
    /\ commentSeq = 0
    /\ now = 0
    /\ req = [c \in Clients |-> IdleReq]
    /\ boot = Booting
    /\ gone = {}
    /\ overlapped = [c \in Clients |-> None]

\* ------------------------------------------------------ Mutation.register
register1(c, U) ==
    /\ Idle(c)
    /\ userSeq + Pending("register:insert") < MaxUserId
    /\ \E username \in Usernames, email \in Emails, password \in Passwords, header \in Headers(U, TRUE) :
           LET args == [username |-> username, email |-> email, password |-> password] IN
           /\ IF existingUser(email, username) # {}
              THEN Return(c, "register", args, header, Error(UserExists))
              ELSE Call(c, "register", args, header, "register:insert")
           /\ UNCHANGED <<users, posts, comments, userSeq, postSeq, commentSeq, now, boot, gone, overlapped>>

register2(c) ==
    /\ At(c, "register:insert")
    /\ \E salt \in Salts :
        LET args == req[c].args
            user == [id |-> userSeq + 1, username |-> args.username, email |-> args.email,
                     password |-> hashPassword(args.password, salt)]
        IN  /\ userSeq' = userSeq + 1
            /\ IF usersUnique(user)
               THEN /\ users' = users \cup {user}
                    /\ Finish(c, Ok([token |-> generateToken(claimsOf(user), now),
                                     user |-> publicUser(user)]))
               ELSE /\ users' = users
                    /\ Finish(c, Error(UniqueViolation))
    /\ UNCHANGED <<posts, comments, postSeq, commentSeq, now, boot, gone, overlapped>>

\* --------------------------------------------------------- Mutation.login
login(c, U) ==
    /\ Idle(c)
    /\ \E email \in Emails, password \in U.guesses, header \in Headers(U, TRUE) :
           LET args == [email |-> email, password |-> password]
               rows == usersByEmail(email)
           IN  /\ IF rows = {}
                  THEN Return(c, "login", args, header, Error(NoSuchEmail))
                  ELSE \E user \in rows :
                         IF ~comparePassword(password, user.password)
                         THEN Return(c, "login", args, header, Error(WrongPassword))
                         ELSE Return(c, "login", args, header,
                                     Ok([token |-> generateToken(claimsOf(user), now),
                                         user |-> publicUser(user)]))
               /\ UNCHANGED <<users, posts, comments, userSeq, postSeq, commentSeq, now, boot, gone, overlapped>>

\* ---------------------------------------------------- Mutation.createPost
createPost(c, U) ==
    /\ Idle(c)
    /\ postSeq < MaxPostId
    /\ \E title \in Titles, content \in Contents, published \in U.published,
          header \in Headers(U, FALSE) :
           LET args == [title |-> title, content |-> content, published |-> published]
               ctx == context(header, now)
           IN  /\ IF unauthenticated(ctx)
                  THEN /\ Return(c, "createPost", args, header, Error(NotAuthenticated))
                       /\ UNCHANGED <<posts, postSeq>>
                  ELSE LET post == [id |-> postSeq + 1, title |-> title, content |-> content,
                                    published |-> IF published = None THEN FALSE ELSE published[1],
                                    author_id |-> ctx.user[1].userId,
                                    created_at |-> now, updated_at |-> now]
                       IN  /\ postSeq' = postSeq + 1
                           /\ IF userExists(post.author_id)
                              THEN /\ posts' = posts \cup {post}
                                   /\ Return(c, "createPost", args, header, Ok(post))
                              ELSE /\ posts' = posts
                                   /\ Return(c, "createPost", args, header, Error(ForeignKeyViolation))
               /\ UNCHANGED <<users, comments, userSeq, commentSeq, now, boot, gone, overlapped>>

\* ---------------------------------------------------- Mutation.updatePost
updatePost1(c, U) ==
    /\ Idle(c)
    /\ \E id \in 1..MaxPostId, title \in U.titles, content \in U.contents,
          published \in U.flags, header \in Headers(U, FALSE) :
           LET args == [id |-> id, title |-> title, content |-> content, published |-> published]
               ctx == context(header, now)
           IN  /\ IF unauthenticated(ctx)
                  THEN Return(c, "updatePost", args, header, Error(NotAuthenticated))
                  ELSE IF postCheck(id) = {}
                  THEN Return(c, "updatePost", args, header, Error(PostNotFound))
                  ELSE IF notPostOwner(postCheck(id), ctx)
                  THEN Return(c, "updatePost", args, header, Error(NotAuthorizedUpdate))
                  ELSE Call(c, "updatePost", args, header, "updatePost:update")
               /\ UNCHANGED <<users, posts, comments, userSeq, postSeq, commentSeq, now, boot, gone, overlapped>>

updatePost2(c) ==
    /\ At(c, "updatePost:update")
    /\ LET args == req[c].args
           \* RETURNING *: the rows as the UPDATE left them
           rows == {p \in postsAfterUpdate(args, now) : p.id = args.id}
       IN  /\ posts' = postsAfterUpdate(args, now)
           /\ IF rows = {}
              THEN Finish(c, Undefined)
              ELSE \E row \in rows : Finish(c, Ok(row))
           \* history: this UPDATE, noted for every other updatePost of the
           \* same post that has passed its ownership check and not yet written
           /\ overlapped' =
                [d \in Clients |->
                    IF d # c /\ rows # {} /\ req[d].pc = "updatePost:update" /\ req[d].args.id = args.id
                    THEN Some([patch |-> [f \in PatchFields |-> args[f]],
                               row |-> [f \in PatchFields |-> (CHOOSE row \in rows : TRUE)[f]]])
                    ELSE overlapped[d]]
    /\ UNCHANGED <<users, comments, userSeq, postSeq, commentSeq, now, boot, gone>>

\* ---------------------------------------------------- Mutation.deletePost
\* the DELETE issued ahead of the ownership comparison
deletePost1DeleteFirst(c, U) ==
    /\ Idle(c)
    /\ \E id \in 1..MaxPostId, header \in Headers(U, FALSE) :
           LET args == [id |-> id]
               ctx == context(header, now)
           IN  /\ IF unauthenticated(ctx)
                  THEN /\ Return(c, "deletePost", args, header, Error(NotAuthenticated))
                       /\ UNCHANGED <<posts, comments>>
                  ELSE IF postCheck(id) = {}
                  THEN /\ Return(c, "deletePost", args, header, Error(PostNotFound))
                       /\ UNCHANGED <<posts, comments>>
                  ELSE /\ posts' = postsAfterDelete(id)
                       /\ comments' = commentsAfterPostDelete(id)
                       /\ IF notPostOwner(postCheck(id), ctx)
                          THEN Return(c, "deletePost", args, header, Error(NotAuthorizedDeletePost))
                          ELSE Return(c, "deletePost", args, header, Ok(TRUE))
               /\ UNCHANGED <<users, userSeq, postSeq, commentSeq, now, boot, gone, overlapped>>

deletePost1(c, U) ==
    /\ Idle(c)
    /\ \E id \in 1..MaxPostId, header \in Headers(U, FALSE) :
           LET args == [id |-> id]
               ctx == context(header, now)
           IN  /\ IF unauthenticated(ctx)
                  THEN Return(c, "deletePost", args, header, Error(NotAuthenticated))
                  ELSE IF postCheck(id) = {}
                  THEN Return(c, "deletePost", args, header, Error(PostNotFound))
                  ELSE IF notPostOwner(postCheck(id), ctx)
                  THEN Return(c, "deletePost", args, header, Error(NotAuthorizedDeletePost))
                  ELSE Call(c, "deletePost", args, header, "deletePost:delete")
               /\ UNCHANGED <<users, posts, comments, userSeq, postSeq, commentSeq, now, boot, gone, overlapped>>

deletePost2(c) ==
    /\ At(c, "deletePost:delete")
    /\ posts' = postsAfterDelete(req[c].args.id)
    /\ comments' = commentsAfterPostDelete(req[c].args.id)
    /\ Finish(c, Ok(TRUE))
    /\ UNCHANGED <<users, userSeq, postSeq, commentSeq, now, boot, gone, overlapped>>

\* ------------------------------------------------- Mutation.createComment
createComment1(c, U) ==
    /\ Idle(c)
    /\ commentSeq + Pending("createComment:insert") < MaxCommentId
    /\ \E postId \in 1..MaxPostId, content \in CommentTexts, header \in Headers(U, FALSE) :
           LET args == [postId |-> postId, content |-> content]
               ctx == context(header, now)
           IN  /\ commentSeq + Pending("createComment:insert") < MaxCommentId
               /\ IF unauthenticated(ctx)
                  THEN Return(c, "createComment", args, header, Error(NotAuthenticated))
                  ELSE IF postCheck(postId) = {}
                  THEN Return(c, "createComment", args, header, Error(PostNotFound))
                  ELSE Call(c, "createComment", args, header, "createComment:insert")
               /\ UNCHANGED <<users, posts, comments, userSeq, postSeq, commentSeq, now, boot, gone, overlapped>>

createComment2(c) ==
    /\ At(c, "createComment:insert")
    /\ LET args == req[c].args
           comment == [id |-> commentSeq + 1, content |-> args.content, post_id |-> args.postId,
                       author_id |-> req[c].ctx.user[1].userId]
       IN  /\ commentSeq' = commentSeq + 1
           /\ IF postExists(comment.post_id) /\ userExists(comment.author_id)
              THEN /\ comments' = comments \cup {comment}
                   /\ Finish(c, Ok(comment))
              ELSE /\ comments' = comments
                   /\ Finish(c, Error(ForeignKeyViolation))
    /\ UNCHANGED <<users, posts, userSeq, postSeq, now, boot, gone, overlapped>>

\* ------------------------------------------------- Mutation.deleteComment
deleteComment1(c, U) ==
    /\ Idle(c)
    /\ \E id \in 1..MaxCommentId, header \in Headers(U, FALSE) :
           LET args == [id |-> id]
               ctx == context(header, now)
           IN  /\ IF unauthenticated(ctx)
                  THEN Return(c, "deleteComment", args, header, Error(NotAuthenticated))
                  ELSE IF commentCheck(id) = {}
                  THEN Return(c, "deleteComment", args, header, Error(CommentNotFound))
                  ELSE IF notCommentOwner(commentCheck(id), ctx)
                  THEN Return(c, "deleteComment", args, header, Error(NotAuthorizedDeleteComment))
                  ELSE Call(c, "deleteComment", args, header, "deleteComment:delete")
               /\ UNCHANGED <<users, posts, comments, userSeq, postSeq, commentSeq, now, boot, gone, overlapped>>

deleteComment2(c) ==
    /\ At(c, "deleteComment:delete")
    /\ comments' = commentsAfterDelete(req[c].args.id)
    /\ Finish(c, Ok(TRUE))
    /\ UNCHANGED <<users, posts, userSeq, postSeq, commentSeq, now, boot, gone, overlapped>>

\* --------------------------------------------------------------- Query.me
\* me is declared User, nullable: the undefined of an empty result is
\* delivered as data { me: null } with no error
me(c, U) ==
    /\ Idle(c)
    /\ \E header \in Headers(U, FALSE) :
           LET ctx == context(header, now) IN
           /\ IF unauthenticated(ctx)
              THEN Return(c, "me", <<>>, header, Error(NotAuthenticated))
              ELSE LET rows == userById(ctx.user[1].userId) IN
                   IF rows = {}
                   THEN Return(c, "me", <<>>, header, Undefined)
                   ELSE \E row \in rows : Return(c, "me", <<>>, header, Ok(publicUser(row)))
           /\ UNCHANGED <<users, posts, comments, userSeq, postSeq, commentSeq, now, boot, gone, overlapped>>

\* --------------------------------------------------------- Query.comments
commentsQuery(c, U) ==
    /\ Idle(c)
    /\ \E postId \in 1..MaxPostId, header \in Headers(U, TRUE) :
           /\ Return(c, "comments", [postId |-> postId], header, Ok(commentsOfPost(postId)))
           /\ UNCHANGED <<users, posts, comments, userSeq, postSeq, commentSeq, now, boot, gone, overlapped>>

\* ------------------------------------------------------------ environment
\* the response leaves the server
Respond(c) ==
    /\ req[c].pc = "done"
    /\ req' = [req EXCEPT ![c] = IdleReq]
    /\ overlapped' = [overlapped EXCEPT ![c] = None]
    /\ UNCHANGED <<users, posts, comments, userSeq, postSeq, commentSeq, now, boot, gone>>

\* a user row is deleted in the store by another party (no resolver deletes
\* a user): posts.author_id, comments.author_id and comments.post_id cascade.
\* The tokens issued for the row stay valid until they expire
userRowVanishes ==
    /\ Listening
    /\ Delivered
    /\ \E u \in users :
           LET keep == {p \in posts : p.author_id # u.id} IN
           /\ users' = users \ {u}
           /\ posts' = keep
           /\ comments' = {k \in comments : k.author_id # u.id /\ \E p \in keep : p.id = k.post_id}
           /\ gone' = gone \cup {u}
    /\ UNCHANGED <<userSeq, postSeq, commentSeq, now, req, boot, overlapped>>

\* CURRENT_TIMESTAMP and the token clock advance
Tick ==
    /\ Listening
    /\ Delivered
    /\ now < MaxTime
    /\ now' = now + 1
    /\ UNCHANGED <<users, posts, comments, userSeq, postSeq, commentSeq, req, boot, gone, overlapped>>

\* two clients, requests interleaving between their store statements
Next ==
    \/ \E c \in Clients : register1(c, RaceInputs)
    \/ \E c \in Clients : register2(c)
    \/ \E c \in Clients : login(c, RaceInputs)
    \/ \E c \in Clients : createPost(c, RaceInputs)
    \/ \E c \in Clients : updatePost1(c, RaceInputs)
    \/ \E c \in Clients : updatePost2(c)
    \/ \E c \in Clients : deletePost1(c, RaceInputs)
    \/ \E c \in Clients : deletePost2(c)
    \/ \E c \in Clients : createComment1(c, RaceInputs)
    \/ \E c \in Clients : createComment2(c)
    \/ \E c \in Clients : deleteComment1(c, RaceInputs)
    \/ \E c \in Clients : deleteComment2(c)
    \/ \E c \in Clients : commentsQuery(c, RaceInputs)
    \/ \E c \in Clients : Respond(c)
    \/ Tick
    \/ startServer

Spec == Init /\ [][Next]_vars

\* one client, one request after the other, every input
NextSeq ==
    \/ register1(1, AllInputs)
    \/ register2(1)
    \/ login(1, AllInputs)
    \/ createPost(1, AllInputs)
    \/ updatePost1(1, AllInputs)
    \/ updatePost2(1)
    \/ deletePost1(1, AllInputs)
    \/ deletePost2(1)
    \/ createComment1(1, AllInputs)
    \/ createComment2(1)
    \/ deleteComment1(1, AllInputs)
    \/ deleteComment2(1)
    \/ commentsQuery(1, AllInputs)
    \/ Respond(1)
    \/ Tick
    \/ startServer

SpecSeq == Init /\ [][NextSeq]_vars

\* the inputs of one client whose credential may be absent, forged or expired
StaleInputs == [RaceInputs EXCEPT !.anyHeader = TRUE]

\* one client against a store in which user rows can be deleted by another party
NextStale ==
    \/ register1(1, StaleInputs)
    \/ register2(1)
    \/ login(1, StaleInputs)
    \/ me(1, StaleInputs)
    \/ createPost(1, StaleInputs)
    \/ updatePost1(1, StaleInputs)
    \/ updatePost2(1)
    \/ deletePost1(1, StaleInputs)
    \/ deletePost2(1)
    \/ createComment1(1, StaleInputs)
    \/ createComment2(1)
    \/ deleteComment1(1, StaleInputs)
    \/ deleteComment2(1)
    \/ commentsQuery(1, StaleInputs)
    \/ Respond(1)
    \/ Tick
    \/ userRowVanishes
    \/ startServer

SpecStale == Init /\ [][NextStale]_vars

\* ================================================================ claims
Arrives(c) == req[c].pc = "idle" /\ req'[c].pc # "idle"
Completes(c) == req[c].pc # "done" /\ req'[c].pc = "done"
Done(c, op) == req[c].pc = "done" /\ req[c].op = op
Outcome(c) == req[c].result[1]

Unauthenticated == {NotAuthenticated}
Forbidden == {NotAuthorizedUpdate, NotAuthorizedDeletePost, NotAuthorizedDeleteComment}
NotFound == {PostNotFound, CommentNotFound}

\* C1: updatePost and deletePost of an existing post fail with Forbidden for
\* an authenticated user who is not its author, fail with Unauthenticated for
\* an empty context, and succeed for the author: updatePost returns the post
\* as stored, deletePost returns true and the post is gone.
OwnershipStep(c) ==
    Completes(c) /\ req'[c].op \in {"updatePost", "deletePost"} =>
        LET r == req'[c]
            res == r.result[1]
        IN  /\ r.ctx.user = None => res.err \in Unauthenticated /\ res.val = None
            /\ \A p \in posts :
                 p.id = r.args.id /\ r.ctx.user # None =>
                   IF p.author_id # r.ctx.user[1].userId
                   THEN res.err \in Forbidden /\ res.val = None
                   ELSE /\ res.err = ""
                        /\ r.op = "updatePost" =>
                             /\ res.val # None
                             /\ res.val[1] \in posts'
                             /\ res.val[1].id = p.id
                        /\ r.op = "deletePost" =>
                             /\ res.val = Some(TRUE)
                             /\ \A q \in posts' : q.id # p.id

OwnershipInvariant == [][\A c \in Clients : OwnershipStep(c)]_vars

OwnershipWitness ==
    \E c \in Clients :
        /\ Done(c, "updatePost")
        /\ Outcome(c).err = NotAuthorizedUpdate
        /\ \E p \in posts : p.id = req[c].args.id /\ p.author_id # req[c].ctx.user[1].userId

\* C2: a mutation that fails with Unauthenticated, Forbidden or NotFound has
\* changed no row of users, posts or comments: the step that fails changes
\* none, and every step that changes a row ends its request successfully.
GuardsPrecedeWrites ==
    [][/\ \A c \in Clients :
            Completes(c) /\ req'[c].result[1].err \in Unauthenticated \cup Forbidden \cup NotFound
                => db' = db
       /\ db' # db => \E c \in Clients : Completes(c) /\ req'[c].result[1].err = ""]_vars

GuardsPrecedeWritesWitness ==
    \E c \in Clients :
        /\ Done(c, "deletePost")
        /\ Outcome(c).err = NotAuthorizedDeletePost
        /\ \E p \in posts : p.id = req[c].args.id
        /\ comments # {}

\* C3: the context of a request carries the original claims of the token in
\* its Authorization header when the token service issued that token and it
\* has not expired; it is empty for an absent header, an empty credential and
\* a tampered or expired token, and the request is served all the same.
ContextStep(c) ==
    Arrives(c) =>
        LET r == req'[c]
            bad == r.header # None /\ r.header[1].cred # None
                   /\ \/ r.header[1].cred[1].sig # Secret
                      \/ now >= r.header[1].cred[1].exp
        IN  /\ r.header = None => r.ctx.user = None
            /\ r.header # None /\ r.header[1].cred = None => r.ctx.user = None
            /\ \A u \in users, t \in 0..now :
                 /\ r.header # None
                 /\ r.header[1].cred = Some(generateToken(claimsOf(u), t))
                 /\ now < t + TokenTTL
                 => r.ctx.user = Some([userId |-> u.id, username |-> u.username,
                                       email |-> u.email])
            /\ bad => r.ctx.user = None
            /\ bad /\ r.op = "comments" =>
                 /\ r.pc = "done"
                 /\ r.result = Some(Ok(commentsOfPost(r.args.postId)))
            /\ bad /\ r.op \in {"register", "login"} /\ r.pc = "done" =>
                 r.result[1].err # NotAuthenticated

ContextRoundTrip == [][\A c \in Clients : ContextStep(c)]_vars

ContextWitness ==
    \E c \in Clients, u \in users :
        /\ req[c].pc # "idle"
        /\ req[c].header = Some([scheme |-> "Bearer ", cred |-> Some(generateToken(claimsOf(u), now))])
        /\ req[c].ctx.user = Some(claimsOf(u))
        /\ u.id = 2

\* C4: login with an email no user has and login with a password that does
\* not verify against the stored hash give the same response, the error
\* 'Invalid credentials' without a token.
LoginFailuresAlike ==
    \A c \in Clients :
        Done(c, "login") =>
            LET rows == {u \in users : u.email = req[c].args.email} IN
            (rows = {} \/ \A u \in rows : ~comparePassword(req[c].args.password, u.password))
                => Outcome(c) = [err |-> "Invalid credentials", val |-> None]

LoginFailuresAlikeWitness ==
    \E c \in Clients :
        /\ Done(c, "login")
        /\ \E u \in users : u.email = req[c].args.email
                            /\ ~comparePassword(req[c].args.password, u.password)
        /\ Outcome(c).err = "Invalid credentials"

\* C5: register fails with the Conflict error, inserts no row and returns no
\* token when a stored user has the same username or the same email.
RegisterConflictStep(c) ==
    /\ Arrives(c)
    /\ req'[c].op = "register"
    /\ \E u \in users : u.username = req'[c].args.username \/ u.email = req'[c].args.email
    => /\ req'[c].pc = "done"
       /\ req'[c].result = Some([err |-> UserExists, val |-> None])
       /\ users' = users

RegisterConflict == [][\A c \in Clients : RegisterConflictStep(c)]_vars

RegisterConflictWitness ==
    \E c \in Clients :
        /\ Done(c, "register")
        /\ Outcome(c).err = UserExists
        /\ \E u \in users : u.username = req[c].args.username
        /\ \A u \in users : u.email # req[c].args.email

\* C6: no two user rows share a username, an email or an id, whatever the
\* interleaving of the existence checks and inserts of concurrent registers.
UsersUnique ==
    \A u \in users, v \in users :
        u # v => u.username # v.username /\ u.email # v.email /\ u.id # v.id

UsersUniqueWitness ==
    \E c \in Clients :
        /\ Done(c, "register")
        /\ Outcome(c).err = UniqueViolation
        /\ \E u \in users : u.username = req[c].args.username \/ u.email = req[c].args.email

\* C7: a successful register stores a row with the given username and email
\* and returns a token whose claims are that row's id, username and email;
\* a login with the email and password of a stored row succeeds and returns
\* a token with the same claims; a stored row is never changed or removed.
RegisterThenLoginState ==
    \A c \in Clients :
        /\ Done(c, "register") /\ Outcome(c).err = "" =>
             \E u \in users :
                /\ u.id = userSeq
                /\ u.username = req[c].args.username
                /\ u.email = req[c].args.email
                /\ comparePassword(req[c].args.password, u.password)
                /\ verifyToken(Outcome(c).val[1].token, now)
                     = Some([userId |-> u.id, username |-> u.username, email |-> u.email])
                /\ Outcome(c).val[1].user.id = u.id
        /\ Done(c, "login") =>
             \A u \in users :
                u.email = req[c].args.email /\ comparePassword(req[c].args.password, u.password)
                => /\ Outcome(c).err = ""
                   /\ verifyToken(Outcome(c).val[1].token, now)
                        = Some([userId |-> u.id, username |-> u.username, email |-> u.email])
                   /\ Outcome(c).val[1].user.id = u.id

RegisterThenLogin == []RegisterThenLoginState /\ [][users \subseteq users']_vars

RegisterThenLoginWitness ==
    \E c \in Clients :
        /\ Done(c, "login")
        /\ Outcome(c).err = ""
        /\ Outcome(c).val[1].token.claims.userId = 2
        /\ Cardinality(users) = 2

\* C8: every comment references a stored post and a stored author, every
\* post a stored author; after a successful deletePost no comment of the
\* post remains, and comments(P) of a post that is not stored is empty.
ReferencesValid ==
    /\ \A k \in comments : (\E p \in posts : p.id = k.post_id) /\ (\E u \in users : u.id = k.author_id)
    /\ \A p \in posts : \E u \in users : u.id = p.author_id
    /\ \A c \in Clients :
         /\ Done(c, "deletePost") /\ Outcome(c).err = "" =>
              /\ \A p \in posts : p.id # req[c].args.id
              /\ \A k \in comments : k.post_id # req[c].args.id
         /\ Done(c, "comments") /\ (\A p \in posts : p.id # req[c].args.postId) =>
              Outcome(c) = Ok({})

ReferencesValidWitness ==
    \E c \in Clients :
        /\ Done(c, "createComment")
        /\ Outcome(c).err = ForeignKeyViolation
        /\ \A p \in posts : p.id # req[c].args.postId

\* C9: a successful updatePost by the owner sets the fields of title,
\* content and published that the patch provides, sets updated_at to the
\* current time and leaves every other field of the post, every other post
\* and the users and comments unchanged, for every subset of provided fields.
PartialUpdateStep(c) ==
    Completes(c) /\ req'[c].op = "updatePost" /\ req'[c].result[1].err = "" =>
        LET a == req'[c].args IN
        \A p \in posts :
            p.id = a.id =>
                \E q \in posts' :
                    /\ req'[c].result[1].val = Some(q)
                    /\ q.id = p.id
                    /\ q.author_id = p.author_id
                    /\ q.created_at = p.created_at
                    /\ q.updated_at = now
                    /\ q.title = IF a.title = None THEN p.title ELSE a.title[1]
                    /\ q.content = IF a.content = None THEN p.content ELSE a.content[1]
                    /\ q.published = IF a.published = None THEN p.published ELSE a.published[1]
                    /\ posts' \ {q} = posts \ {p}
                    /\ users' = users
                    /\ comments' = comments

PartialUpdate == [][\A c \in Clients : PartialUpdateStep(c)]_vars

PartialUpdateWitness ==
    \E c \in Clients :
        /\ Done(c, "updatePost")
        /\ Outcome(c).err = ""
        /\ req[c].args.title # None
        /\ req[c].args.content = None
        /\ req[c].args.published = None
        /\ \E q \in posts :
             /\ Outcome(c).val = Some(q)
             /\ q.title = "X"
             /\ q.content = "C"
             /\ q.published
             /\ q.updated_at > q.created_at
        /\ comments # {}

\* C10: an authenticated createComment on a stored post succeeds whoever
\* owns the post and stores a comment of the caller, and fails with NotFound
\* when the post is not stored; deleteComment of a stored comment succeeds
\* and removes it for its author, and fails with Forbidden and keeps it for
\* any other user, the owner of the parent post included.
CommentAuthorStep(c) ==
    Completes(c) /\ req'[c].ctx.user # None =>
        LET r == req'[c]
            res == r.result[1]
            caller == r.ctx.user[1].userId
        IN  /\ r.op = "createComment" =>
                IF \A p \in posts : p.id # r.args.postId
                THEN res.err \in NotFound /\ comments' = comments
                ELSE /\ res.err = ""
                     /\ res.val[1].author_id = caller
                     /\ res.val[1].post_id = r.args.postId
                     /\ res.val[1].content = r.args.content
                     /\ res.val[1] \notin comments
                     /\ comments' = comments \cup {res.val[1]}
            /\ r.op = "deleteComment" =>
                \A k \in comments :
                    k.id = r.args.id =>
                        IF k.author_id = caller
                        THEN res = Ok(TRUE) /\ comments' = comments \ {k}
                        ELSE res.err \in Forbidden /\ comments' = comments

CommentAuthorOnly == [][\A c \in Clients : CommentAuthorStep(c)]_vars

CommentAuthorOnlyWitness ==
    \E c \in Clients, k \in comments, p \in posts :
        /\ Done(c, "deleteComment")
        /\ Outcome(c).err = NotAuthorizedDeleteComment
        /\ k.id = req[c].args.id
        /\ p.id = k.post_id
        /\ p.author_id = req[c].ctx.user[1].userId
        /\ k.author_id # p.author_id

\* C11: me fails with Unauthenticated for an empty context; with an
\* authenticated context it returns the user row whose id is the context's
\* userId, and fails with a NotFound error when that row is no longer stored.
MeContract ==
    \A c \in Clients :
        Done(c, "me") =>
            IF req[c].ctx.user = None
            THEN Outcome(c) = Error(NotAuthenticated)
            ELSE IF userById(req[c].ctx.user[1].userId) # {}
            THEN \E u \in userById(req[c].ctx.user[1].userId) : Outcome(c) = Ok(publicUser(u))
            ELSE Outcome(c).err \in NotFound \cup {UserNotFound}

\* C12 as stated: when an updatePost's UPDATE runs after the UPDATE of a
\* concurrent updatePost of the same post, title, content and published are
\* the later request's values and no value the earlier request wrote remains.
LastWriteWins ==
    \A c \in Clients :
        Done(c, "updatePost") /\ overlapped[c] # None =>
            \A q \in posts :
                q.id = req[c].args.id =>
                    /\ Outcome(c) = Ok(q)
                    /\ \A f \in PatchFields :
                         /\ req[c].args[f] # None => q[f] = req[c].args[f][1]
                         /\ overlapped[c][1].patch[f] # None => req[c].args[f] # None

\* C12 amended: both requests succeed and the last write wins field by
\* field: each of title, content and published has the later request's value
\* where its patch provides the field and otherwise the value the earlier
\* UPDATE left, which is the earlier request's value where it provided one.
LastWriteWinsPerField ==
    \A c \in Clients :
        Done(c, "updatePost") /\ overlapped[c] # None =>
            \A q \in posts :
                q.id = req[c].args.id =>
                    /\ Outcome(c) = Ok(q)
                    /\ \A f \in PatchFields :
                         /\ q[f] = IF req[c].args[f] # None
                                   THEN req[c].args[f][1]
                                   ELSE overlapped[c][1].row[f]
                         /\ overlapped[c][1].patch[f] # None =>
                              overlapped[c][1].row[f] = overlapped[c][1].patch[f][1]

LastWriteWinsPerFieldWitness ==
    \E c \in Clients, q \in posts :
        /\ Done(c, "updatePost")
        /\ overlapped[c] # None
        /\ overlapped[c][1].patch.title = Some("X")
        /\ overlapped[c][1].patch.published = Some(TRUE)
        /\ req[c].args.title = None
        /\ req[c].args.published = Some(FALSE)
        /\ Outcome(c) = Ok(q)
        /\ q.title = "X"
        /\ ~q.published

\* C13: an owner's updatePost of a post that a concurrent deletePost removes
\* ends either with the updated row or with the error 'Post not found', and
\* never without an error and without a post.
UpdateRowOrNotFound ==
    \A c \in Clients :
        Done(c, "updatePost") /\ Outcome(c).err \notin Unauthenticated \cup Forbidden =>
            \/ Outcome(c) = Error(PostNotFound)
            \/ /\ Outcome(c).err = ""
               /\ Outcome(c).val # None
               /\ Outcome(c).val[1] \in posts

\* C14: the server listens, and requests are served, only after the
\* connection test and the table initialization have both succeeded; a
\* failed connection test exits at once, a failed statement of the
\* initialization is followed by ROLLBACK and the release of the client, and
\* every failure ends the process with exit code 1 without it ever listening.
StartupState ==
    /\ Listening =>
         /\ boot.tested
         /\ boot.tx = "committed"
         /\ boot.tables = Tables
         /\ ~boot.client
         /\ boot.failed = None
         /\ boot.exitCode = None
    /\ ~Listening => req = [c \in Clients |-> IdleReq] /\ db = <<{}, {}, {}>>
    /\ boot.failed # None => boot.pc \in {"ROLLBACK", "exited"}
    /\ Exited =>
         /\ boot.exitCode = Some(1)
         /\ boot.failed # None
         /\ ~boot.client
         /\ boot.failed[1] \in {Statements[i] : i \in DOMAIN Statements} =>
              /\ boot.rollback # "none"
              /\ boot.rollback = "done" => boot.tx # "open" /\ boot.tables = {}

StartupStep ==
    /\ boot.pc = "testConnection" /\ boot' # boot =>
         boot'.tested \/ (boot'.pc = "exited" /\ boot'.failed = Some("testConnection"))
    /\ boot.pc = "ROLLBACK" /\ boot' # boot => boot'.pc = "exited"
    /\ Exited => vars' = vars

StartupFailFast == []StartupState /\ [][StartupStep]_vars

StartupFailFastWitness ==
    /\ Exited
    /\ boot.exitCode = Some(1)
    /\ boot.tested
    /\ boot.failed = Some("comments")
    /\ boot.rollback = "done"
    /\ boot.tables = {}

====
